---- MODULE Spec2Model ----
(***************************************************************************)
(* Model of youtube_say.py: a polling relay loop that prints every live    *)
(* chat comment and reads it aloud through the macOS `say` command.        *)
(*                                                                         *)
(* Text is modelled as a sequence of one-character strings, so that the    *)
(* string operations of the program (lower, strip, lstrip, replace, len,   *)
(* f-string concatenation) are computed character by character.            *)
(***************************************************************************)
EXTENDS Integers, Sequences, FiniteSets

VARIABLES
    pc,         \* position of the single thread of the program
    argc,       \* len(sys.argv)
    stdout,     \* lines printed so far
    creates,    \* number of calls of pytchat.create
    polls,      \* number of chat.is_alive() calls that returned True
    alive,      \* result of the last chat.is_alive() call
    batch,      \* items of chat.get().sync_items() not yet iterated
    c,          \* loop variable of the for loop in main
    arrived,    \* every message fetched so far, in arrival order
    spoken,     \* every call of subprocess.run(["say", ...]), in order
    procs,      \* number of say processes currently running
    fault,      \* last failure of an external collaborator
    exitStatus, \* exit status of the program, -1 while it runs
    arg,        \* argument of the function called directly
    ret         \* value returned by friendly_name when called directly

vars == <<pc, argc, stdout, creates, polls, alive, batch, c, arrived,
          spoken, procs, fault, exitStatus, arg, ret>>

----------------------------------------------------------------------------
(* Bounds of the model *)

MaxArgc == 2
MaxPolls == 2
MaxArrived == 3
MaxAuthorLen == 6
MaxTextLen == 3

(* Program constants *)

MaxSayLen == 200

----------------------------------------------------------------------------
(* Characters and Python string operations *)

DQ == "\""
SQ == "'"
NL == "\n"
SP == " "
AT == "@"

\* the whitespace characters of the model, among those str.strip() removes
Whitespace == {SP, NL, "\t"}

\* str.lower() on one character
LowerChar(ch) ==
    CASE ch = "N" -> "n"
      [] ch = "U" -> "u"
      [] ch = "L" -> "l"
      [] ch = "F" -> "f"
      [] ch = "H" -> "h"
      [] OTHER -> ch

\* In the operations below { e(t) : t \in {s} } makes the argument s be
\* evaluated once, whatever the number of times e uses it.

\* str.lower()
lower(s) ==
    CHOOSE r \in { [i \in 1..Len(t) |-> LowerChar(t[i])] : t \in {s} } : TRUE

\* number of leading characters of s that belong to chars
RECURSIVE LeadCount(_, _, _)
LeadCount(s, chars, i) ==
    IF i < Len(s) /\ s[i + 1] \in chars THEN LeadCount(s, chars, i + 1) ELSE i

\* number of trailing characters of s that belong to chars
RECURSIVE TrailCount(_, _, _)
TrailCount(s, chars, i) ==
    IF i < Len(s) /\ s[Len(s) - i] \in chars THEN TrailCount(s, chars, i + 1) ELSE i

\* str.lstrip(chars): every leading character that belongs to chars is removed
lstrip(s, chars) ==
    CHOOSE r \in { SubSeq(t, LeadCount(t, chars, 0) + 1, Len(t)) : t \in {s} } : TRUE

\* str.rstrip(chars)
rstrip(s, chars) ==
    CHOOSE r \in { SubSeq(t, 1, Len(t) - TrailCount(t, chars, 0)) : t \in {s} } : TRUE

\* str.strip(): leading and trailing whitespace is removed
strip(s) == rstrip(lstrip(s, Whitespace), Whitespace)

\* str.replace(old, new) for a one-character old and a new of at most one
\* character, as say calls it: every occurrence of old is deleted when new
\* is empty, and becomes new otherwise
replace(s, old, new) ==
    CHOOSE r \in { IF new = <<>>
                   THEN SelectSeq(t, LAMBDA ch : ch # old)
                   ELSE [i \in 1..Len(t) |-> IF t[i] = old THEN new[1] ELSE t[i]]
                   : t \in {s} } : TRUE

\* n copies of the character ch
Fill(ch, n) == [i \in 1..n |-> ch]

----------------------------------------------------------------------------
(* friendly_name and say *)

Null == <<"n", "u", "l", "l">>
Nu11 == <<"n", "u", "1", "1">>

\* friendly_name returning the normalized name instead of the author
friendly_name_normalized(author) ==
    LET normalized == lstrip(strip(lower(author)), {AT})
    IN IF normalized \in {Nu11, Null} THEN Null ELSE normalized

\* friendly_name comparing without lowercasing
friendly_name_case(author) ==
    LET normalized == lstrip(strip(author), {AT})
    IN IF normalized \in {Nu11, Null} THEN Null ELSE author

friendly_name(author) ==
    LET normalized == lstrip(strip(lower(author)), {AT})
    IN IF normalized \in {Nu11, Null} THEN Null ELSE author

Samantha == "Samantha"

\* sanitization that leaves single quotes in the text
clean_keeps_apostrophe(text) == replace(replace(text, DQ, <<>>), NL, <<SP>>)

\* the sanitized text of say
clean(text) == replace(replace(replace(text, DQ, <<>>), SQ, <<>>), NL, <<SP>>)

\* say without the length limit
say_skips_only_empty(text) == strip(clean(text)) = <<>>

\* the condition under which say returns without speaking
say_skips(text) == strip(clean(text)) = <<>> \/ Len(clean(text)) > MaxSayLen

----------------------------------------------------------------------------
(* Values *)

Msg(author, message) == [author |-> author, message |-> message]

NoMsg == Msg(<<>>, <<>>)

Line(kind, text) == [kind |-> kind, text |-> text]

\* f"{author}: {message}"
ChatLine(m) == Line("chat", m.author \o <<":", SP>> \o m.message)

\* f"{friendly_name(author)} says: {message}"
Says == <<SP, "s", "a", "y", "s", ":", SP>>

\* the utterance built from the author as received
Utterance_author(m) == m.author \o Says \o m.message

Utterance(m) == friendly_name(m.author) \o Says \o m.message

\* index in arrived of the message held by the loop variable
CurIndex == Len(arrived) - Len(batch)

----------------------------------------------------------------------------
(* Inputs *)

Foo == <<AT, "F", "o", "o">>

HelloWorld == <<"h", "e", "l", "l", "o", SP, "w", "o", "r", "l", "d">>

HeSaidHi == <<"H", "e", SP, "s", "a", "i", "d", SP, DQ, "h", "i", DQ>>

ItsOk == <<"i", "t", SQ, "s", NL, "o", "k">>

\* the messages a batch is made of
Msgs ==
    { Msg(<<"N", "u", "1", "1">>, HelloWorld),
      Msg(Foo, HeSaidHi),
      Msg(<<SP, AT, "N", "U", "L", "L", SP>>, ItsOk),
      Msg(Foo, Fill("x", MaxSayLen + 50)),
      Msg(Foo, Fill("x", MaxSayLen - Len(Foo \o Says) - 1) \o <<SP, SP>>) }

SeqsUpTo(S, n) == UNION { [1..k -> S] : k \in 0..n }

Batches == SeqsUpTo(Msgs, MaxArrived)

AuthorAlphabet == {AT, SP, "n", "N", "u", "l", "1"}

AuthorInputs == SeqsUpTo(AuthorAlphabet, MaxAuthorLen)

TextAlphabet == {"a", SP, DQ, SQ, NL}

\* short texts, alone or next to a run of characters about MaxSayLen long
TextInputs ==
    LET short == SeqsUpTo(TextAlphabet, MaxTextLen)
        runs == {0} \cup ((MaxSayLen - MaxTextLen)..(MaxSayLen + 1))
    IN { Fill("x", n) \o s : n \in runs, s \in short }
         \cup { s \o Fill("x", n) : n \in runs, s \in short }

----------------------------------------------------------------------------
(* Initial states *)

Idle ==
    /\ stdout = <<>>
    /\ creates = 0
    /\ polls = 0
    /\ alive = "unknown"
    /\ batch = <<>>
    /\ c = NoMsg
    /\ arrived = <<>>
    /\ spoken = <<>>
    /\ procs = 0
    /\ fault = "none"
    /\ exitStatus = -1
    /\ ret = <<>>

\* python3 youtube_say.py [VIDEO_ID]
Init ==
    /\ pc = "main"
    /\ argc \in 1..MaxArgc
    /\ arg = <<>>
    /\ Idle

\* friendly_name(arg) or say(arg) called directly
UnitInit ==
    /\ \/ pc = "call_friendly_name" /\ arg \in AuthorInputs
       \/ pc = "call_say" /\ arg \in TextInputs
    /\ argc = 1
    /\ Idle

----------------------------------------------------------------------------
(* say *)

\* say(text): the text is skipped, or the say command is started
SayCall(text, msg, waitpc, retpc) ==
    /\ IF say_skips(text)
       THEN /\ pc' = retpc
            /\ UNCHANGED <<spoken, procs>>
       ELSE /\ spoken' = Append(spoken, [voice |-> Samantha, text |-> clean(text), msg |-> msg])
            /\ procs' = procs + 1
            /\ pc' = waitpc
    /\ UNCHANGED <<argc, stdout, creates, polls, alive, batch, c, arrived,
                   fault, exitStatus, arg, ret>>

\* subprocess.run(["say", "-v", voice, clean]) raises because the command
\* cannot be started: nothing catches the exception and the program ends
\* with a traceback
SayRaise(text, msg, frompc) ==
    /\ pc = frompc
    /\ ~say_skips(text)
    /\ spoken' = Append(spoken, [voice |-> Samantha, text |-> clean(text), msg |-> msg])
    /\ pc' = "crashed"
    /\ fault' = "speech_raise"
    /\ exitStatus' = 1
    /\ UNCHANGED <<argc, stdout, creates, polls, alive, batch, c, arrived,
                   procs, arg, ret>>

\* the say command finishes, with exit status 0 or not
SpeechExits ==
    /\ procs > 0
    /\ procs' = procs - 1
    /\ \E status \in {0, 1} :
          fault' = IF status = 0 THEN fault ELSE "speech_exit_nonzero"
    /\ UNCHANGED <<pc, argc, stdout, creates, polls, alive, batch, c, arrived,
                   spoken, exitStatus, arg, ret>>

\* the command started without waiting for it (subprocess.Popen)
SayReturn_no_wait(waitpc, retpc) ==
    /\ pc = waitpc
    /\ pc' = retpc
    /\ UNCHANGED <<argc, stdout, creates, polls, alive, batch, c, arrived,
                   spoken, procs, fault, exitStatus, arg, ret>>

\* subprocess.run returns once the command has finished; its exit status
\* is in the CompletedProcess that say drops
SayReturn(waitpc, retpc) ==
    /\ pc = waitpc
    /\ procs = 0
    /\ pc' = retpc
    /\ UNCHANGED <<argc, stdout, creates, polls, alive, batch, c, arrived,
                   spoken, procs, fault, exitStatus, arg, ret>>

----------------------------------------------------------------------------
(* main *)

\* the usage lines without sys.exit(1)
Usage_no_exit ==
    /\ pc = "main"
    /\ argc < 2
    /\ stdout' = stdout \o <<Line("usage", <<>>), Line("example", <<>>)>>
    /\ pc' = "create"
    /\ UNCHANGED <<argc, creates, polls, alive, batch, c, arrived, spoken,
                   procs, fault, exitStatus, arg, ret>>

\* len(sys.argv) < 2: two usage lines and sys.exit(1)
Usage ==
    /\ pc = "main"
    /\ argc < 2
    /\ stdout' = stdout \o <<Line("usage", <<>>), Line("example", <<>>)>>
    /\ exitStatus' = 1
    /\ pc' = "exited"
    /\ UNCHANGED <<argc, creates, polls, alive, batch, c, arrived, spoken,
                   procs, fault, arg, ret>>

\* print(f"Connecting to live chat for video: {video_id}")
Connecting ==
    /\ pc = "main"
    /\ ~(argc < 2)
    /\ stdout' = Append(stdout, Line("connecting", <<>>))
    /\ pc' = "create"
    /\ UNCHANGED <<argc, creates, polls, alive, batch, c, arrived, spoken,
                   procs, fault, exitStatus, arg, ret>>

\* chat = pytchat.create(video_id=video_id)
Create ==
    /\ pc = "create"
    /\ creates' = creates + 1
    /\ pc' = "connected"
    /\ UNCHANGED <<argc, stdout, polls, alive, batch, c, arrived, spoken,
                   procs, fault, exitStatus, arg, ret>>

\* pytchat.create raises
CreateRaises ==
    /\ pc = "create"
    /\ creates' = creates + 1
    /\ fault' = "create_raise"
    /\ exitStatus' = 1
    /\ pc' = "crashed"
    /\ UNCHANGED <<argc, stdout, polls, alive, batch, c, arrived, spoken,
                   procs, arg, ret>>

\* print("Connected! Listening for comments...\n")
Connected ==
    /\ pc = "connected"
    /\ stdout' = Append(stdout, Line("connected", <<>>))
    /\ pc' = "is_alive"
    /\ UNCHANGED <<argc, creates, polls, alive, batch, c, arrived, spoken,
                   procs, fault, exitStatus, arg, ret>>

\* a loop that polls again whatever is_alive returns
IsAlive_ignored ==
    /\ pc = "is_alive"
    /\ \E r \in (IF polls < MaxPolls THEN {TRUE, FALSE} ELSE {FALSE}) :
          /\ alive' = IF r THEN "true" ELSE "false"
          /\ polls' = IF r THEN polls + 1 ELSE polls
          /\ pc' = "get"
    /\ UNCHANGED <<argc, stdout, creates, batch, c, arrived, spoken, procs,
                   fault, exitStatus, arg, ret>>

\* while chat.is_alive(): the session ends within MaxPolls polls
IsAlive ==
    /\ pc = "is_alive"
    /\ \E r \in (IF polls < MaxPolls THEN {TRUE, FALSE} ELSE {FALSE}) :
          /\ alive' = IF r THEN "true" ELSE "false"
          /\ polls' = IF r THEN polls + 1 ELSE polls
          /\ pc' = IF r THEN "get" ELSE "ended"
    /\ UNCHANGED <<argc, stdout, creates, batch, c, arrived, spoken, procs,
                   fault, exitStatus, arg, ret>>

\* chat.get().sync_items(): a batch of any length, at most MaxArrived
\* messages arriving in a run
Get ==
    /\ pc = "get"
    /\ \E b \in Batches :
          /\ Len(arrived) + Len(b) <= MaxArrived
          /\ batch' = b
          /\ arrived' = arrived \o b
    /\ pc' = "for"
    /\ UNCHANGED <<argc, stdout, creates, polls, alive, c, spoken, procs,
                   fault, exitStatus, arg, ret>>

\* a fetch failure caught by the loop, which polls again after the sleep
GetRaises_caught ==
    /\ pc = "get"
    /\ fault' = "fetch_raise"
    /\ pc' = "sleep"
    /\ UNCHANGED <<argc, stdout, creates, polls, alive, batch, c, arrived,
                   spoken, procs, exitStatus, arg, ret>>

\* chat.get() raises
GetRaises ==
    /\ pc = "get"
    /\ fault' = "fetch_raise"
    /\ exitStatus' = 1
    /\ pc' = "crashed"
    /\ UNCHANGED <<argc, stdout, creates, polls, alive, batch, c, arrived,
                   spoken, procs, arg, ret>>

\* for c in ...: the next item, or the end of the batch
For ==
    /\ pc = "for"
    /\ IF batch = <<>>
       THEN /\ pc' = "sleep"
            /\ UNCHANGED <<batch, c>>
       ELSE /\ c' = Head(batch)
            /\ batch' = Tail(batch)
            /\ pc' = "print"
    /\ UNCHANGED <<argc, stdout, creates, polls, alive, arrived, spoken,
                   procs, fault, exitStatus, arg, ret>>

\* the line printed with the friendly name
PrintChat_friendly ==
    /\ pc = "print"
    /\ stdout' = Append(stdout, Line("chat", friendly_name(c.author) \o <<":", SP>> \o c.message))
    /\ pc' = "say"
    /\ UNCHANGED <<argc, creates, polls, alive, batch, c, arrived, spoken,
                   procs, fault, exitStatus, arg, ret>>

\* print(f"{author}: {message}")
PrintChat ==
    /\ pc = "print"
    /\ stdout' = Append(stdout, ChatLine(c))
    /\ pc' = "say"
    /\ UNCHANGED <<argc, creates, polls, alive, batch, c, arrived, spoken,
                   procs, fault, exitStatus, arg, ret>>

\* say(f"{friendly_name(author)} says: {message}")
Say ==
    /\ pc = "say"
    /\ SayCall(Utterance(c), CurIndex, "say_wait", "for")

SayRaises == SayRaise(Utterance(c), CurIndex, "say")

SayReturns == SayReturn("say_wait", "for")

\* time.sleep(0.5)
Sleep ==
    /\ pc = "sleep"
    /\ pc' = "is_alive"
    /\ UNCHANGED <<argc, stdout, creates, polls, alive, batch, c, arrived,
                   spoken, procs, fault, exitStatus, arg, ret>>

\* print("Chat ended or stream offline.") and the return of main
Ended ==
    /\ pc = "ended"
    /\ stdout' = Append(stdout, Line("ended", <<>>))
    /\ exitStatus' = 0
    /\ pc' = "exited"
    /\ UNCHANGED <<argc, creates, polls, alive, batch, c, arrived, spoken,
                   procs, fault, arg, ret>>

Next ==
    \/ Usage
    \/ Connecting
    \/ Create
    \/ CreateRaises
    \/ Connected
    \/ IsAlive
    \/ Get
    \/ GetRaises
    \/ For
    \/ PrintChat
    \/ Say
    \/ SayRaises
    \/ SpeechExits
    \/ SayReturns
    \/ Sleep
    \/ Ended

Spec == Init /\ [][Next]_vars

\* every collaborator call that does not raise returns, and the loop goes on
FairSpec == Spec /\ WF_vars(Next)

----------------------------------------------------------------------------
(* friendly_name and say, called directly *)

UnitFriendlyName ==
    /\ pc = "call_friendly_name"
    /\ ret' = friendly_name(arg)
    /\ pc' = "friendly_name_returned"
    /\ UNCHANGED <<argc, stdout, creates, polls, alive, batch, c, arrived,
                   spoken, procs, fault, exitStatus, arg>>

UnitSay ==
    /\ pc = "call_say"
    /\ SayCall(arg, 0, "call_say_wait", "say_returned")

UnitSayRaises == SayRaise(arg, 0, "call_say")

UnitSayReturns == SayReturn("call_say_wait", "say_returned")

UnitNext ==
    \/ UnitFriendlyName
    \/ UnitSay
    \/ UnitSayRaises
    \/ SpeechExits
    \/ UnitSayReturns

UnitSpec == UnitInit /\ [][UnitNext]_vars

----------------------------------------------------------------------------
(* Properties of friendly_name (UnitSpec) *)

\* s without one leading "@", if it has one
DropOneAt(s) == IF Len(s) > 0 /\ s[1] = AT THEN Tail(s) ELSE s

\* s is "null" or "nu11" after any number of "@"
IsAtNull(s) ==
    \E k \in 0..Len(s) : \E w \in {Nu11, Null} : s = Fill(AT, k) \o w

\* C1 as stated: friendly_name returns the author unchanged unless the
\* author, lowercased, trimmed and without a single leading "@", is "nu11"
\* or "null"; so "@@null" is returned unchanged.
C1_SingleAt ==
    pc = "friendly_name_returned" =>
        (DropOneAt(strip(lower(arg))) \notin {Nu11, Null} => ret = arg)

\* C1 amended: friendly_name returns the author unchanged unless the author,
\* lowercased and trimmed, is "nu11" or "null" after any number of leading
\* "@" characters.
C1_Unchanged ==
    pc = "friendly_name_returned" =>
        (~IsAtNull(strip(lower(arg))) => ret = arg)

\* "@ null" keeps its inner space and is returned as it is
C1_Witness ==
    /\ pc = "friendly_name_returned"
    /\ arg = <<AT, SP, "n", "u", "l", "l">>
    /\ ret = arg

\* C2: when the lowercased, trimmed author without its leading "@" (one, or
\* as many as it has) is "nu11" or "null", friendly_name returns "null".
C2_Null ==
    pc = "friendly_name_returned" =>
        (IsAtNull(strip(lower(arg))) => ret = <<"n", "u", "l", "l">>)

\* " @Nu11" is spoken as "null"
C2_Witness ==
    /\ pc = "friendly_name_returned"
    /\ arg = <<SP, AT, "N", "u", "1", "1">>
    /\ ret = <<"n", "u", "l", "l">>

----------------------------------------------------------------------------
(* Properties of say (UnitSpec) *)

\* text without its quote characters
Unquoted(text) == SelectSeq(text, LAMBDA ch : ch \notin {DQ, SQ})

\* text without its quote characters, each newline turned into a space
Sanitized(text) ==
    LET t == Unquoted(text)
    IN [i \in 1..Len(t) |-> IF t[i] = NL THEN SP ELSE t[i]]

\* C3 as stated: the text passed to the say command is the input text with
\* every double quote, single quote and newline deleted.
C3_Deleted ==
    \A k \in 1..Len(spoken) :
        pc \in {"call_say_wait", "say_returned", "crashed"} =>
            spoken[k].text = SelectSeq(arg, LAMBDA ch : ch \notin {DQ, SQ, NL})

\* C3 amended: the text passed to the say command is the input text with
\* every double quote and single quote deleted and every newline replaced by
\* one space.
C3_Sanitized ==
    \A k \in 1..Len(spoken) :
        pc \in {"call_say_wait", "say_returned", "crashed"} =>
            spoken[k].text = Sanitized(arg)

\* a text with a quote and a newline has been spoken
C3_Witness ==
    /\ pc = "say_returned"
    /\ arg = <<DQ, "a", NL>>
    /\ Len(spoken) = 1
    /\ spoken[1].text = <<"a", SP>>

\* C5: every text handed to the say command has no quote and no newline, is
\* not empty once trimmed and is at most 200 characters long; a text that is
\* empty after sanitization and trimming, or longer than 200 characters after
\* sanitization, is dropped without a call of the command and without error.
C5_WellFormed ==
    /\ \A k \in 1..Len(spoken) :
          /\ \A i \in 1..Len(spoken[k].text) : spoken[k].text[i] \notin {DQ, SQ, NL}
          /\ \E i \in 1..Len(spoken[k].text) : spoken[k].text[i] \notin Whitespace
          /\ Len(spoken[k].text) <= 200
    /\ pc \in {"call_say_wait", "say_returned", "crashed"} =>
          LET t == Sanitized(arg)
          IN ((\A i \in 1..Len(t) : t[i] \in Whitespace) \/ Len(t) > 200) =>
                /\ spoken = <<>>
                /\ pc = "say_returned"
                /\ fault = "none"
                /\ exitStatus = -1

\* a text of more than 200 characters is spoken because it is exactly 200
\* characters long without its quotes
C5_Witness ==
    /\ pc = "say_returned"
    /\ Len(arg) > 200
    /\ Len(spoken) = 1
    /\ Len(spoken[1].text) = 200

----------------------------------------------------------------------------
(* Properties of the relay loop (Spec, FairSpec) *)

ChatLines == SelectSeq(stdout, LAMBDA l : l.kind = "chat")

\* number of messages whose line has been printed
Printed == IF pc = "print" THEN CurIndex - 1 ELSE CurIndex

\* number of messages for which say has been called
Said == IF pc \in {"print", "say"} THEN CurIndex - 1 ELSE CurIndex

\* the calls of the say command made for the i-th message
CallsFor(i) == { k \in 1..Len(spoken) : spoken[k].msg = i }

\* "{friendly_name(author)} says: {body}", sanitized
SpokenForm(m) ==
    Sanitized(friendly_name(m.author) \o <<SP, "s", "a", "y", "s", ":", SP>> \o m.message)

OnceWith(i, u) ==
    \E k \in 1..Len(spoken) :
        /\ CallsFor(i) = {k}
        /\ spoken[k].voice = "Samantha"
        /\ spoken[k].text = u

\* C4 as stated: a message whose sanitized utterance is not empty once
\* trimmed and whose trimmed length is at most 200 is spoken exactly once,
\* with voice Samantha and the sanitized utterance; leading or trailing
\* whitespace alone never drops a message.
C4_Trimmed ==
    \A i \in 1..Said :
        LET u == SpokenForm(arrived[i])
        IN (strip(u) # <<>> /\ Len(strip(u)) <= 200) => OnceWith(i, u)

\* C4 amended: a message whose sanitized utterance is not empty once trimmed
\* and whose length, leading and trailing whitespace included, is at most
\* 200 is spoken exactly once, with voice Samantha and the sanitized
\* utterance.
C4_Spoken ==
    \A i \in 1..Said :
        LET u == SpokenForm(arrived[i])
        IN (strip(u) # <<>> /\ Len(u) <= 200) => OnceWith(i, u)

\* "Nu11: hello world" has been spoken as "null says: hello world"
C4_Witness ==
    /\ Said >= 1
    /\ arrived[1] = Msg(<<"N", "u", "1", "1">>, HelloWorld)
    /\ Len(spoken) >= 1
    /\ spoken[1] = [voice |-> "Samantha", msg |-> 1,
                    text |-> <<"n", "u", "l", "l">> \o Says \o HelloWorld]

\* C6: every message taken from a batch is printed exactly once, as
\* "{author}: {message}" with the author and the body as received, spoken or
\* not; when a batch has been iterated every message fetched is printed.
C6_Printed ==
    /\ Len(ChatLines) = Printed
    /\ \A i \in 1..Printed :
          ChatLines[i].text = arrived[i].author \o <<":", SP>> \o arrived[i].message
    /\ (pc \in {"sleep", "is_alive", "ended"} \/ (pc = "exited" /\ exitStatus = 0))
          => Printed = Len(arrived)

\* a message of 250 characters and one of author " @NULL " are printed as
\* received, and only the second is spoken
C6_Witness ==
    /\ pc = "sleep"
    /\ Len(arrived) = 2
    /\ Len(arrived[1].message) = MaxSayLen + 50
    /\ arrived[2].author = <<SP, AT, "N", "U", "L", "L", SP>>
    /\ Len(ChatLines) = 2
    /\ Len(spoken) = 1

\* C7: lines are printed and say calls are made in arrival order; the line
\* of a message is printed before its say call; while a say command runs
\* the program waits: nothing is printed, fetched or spoken, and at most one
\* command runs.
C7_Order ==
    /\ [](/\ \A i \in 1..Len(ChatLines) :
               /\ i <= Len(arrived)
               /\ ChatLines[i].text = arrived[i].author \o <<":", SP>> \o arrived[i].message
          /\ \A k \in 1..Len(spoken) :
               /\ spoken[k].msg <= Len(ChatLines)
               /\ \A j \in 1..(k - 1) : spoken[j].msg < spoken[k].msg
          /\ procs <= 1
          /\ procs = 1 => /\ pc = "say_wait"
                          /\ spoken[Len(spoken)].msg = Len(ChatLines))
    /\ [][procs > 0 => stdout' = stdout /\ arrived' = arrived /\ spoken' = spoken
                       /\ batch' = batch]_vars

\* the second message of a batch is being spoken after the first
C7_Witness ==
    /\ procs = 1
    /\ Len(spoken) = 2
    /\ Len(batch) = 0
    /\ Len(arrived) = 2

NoEndedLine == \A i \in 1..Len(stdout) : stdout[i].kind # "ended"

\* C8 as stated: when the say command fails, by a non-zero exit status or
\* otherwise, or a fetch fails, the program ends abnormally without going on.
C8_AnyFailure ==
    fault \in {"speech_exit_nonzero", "speech_raise", "fetch_raise"} =>
        pc \in {"say_wait", "crashed"}

\* C8 amended: when the say command cannot be run (subprocess.run raises) or
\* a fetch raises, the exception propagates: the program ends abnormally
\* with no further message processed and no termination banner; a say
\* command that exits with a non-zero status is not a failure of the
\* program: say returns and the loop goes on.
C8_Propagates ==
    /\ [](fault \in {"speech_raise", "fetch_raise"} =>
             /\ pc = "crashed"
             /\ exitStatus = 1
             /\ NoEndedLine)
    /\ [][pc = "crashed" => UNCHANGED vars]_vars
    /\ [][pc = "say_wait" /\ pc' # pc => pc' = "for"]_vars

\* the say command could not be run for the first message of a batch of two
C8_Witness ==
    /\ pc = "crashed"
    /\ fault = "speech_raise"
    /\ Len(batch) = 1
    /\ Len(ChatLines) = 1

\* C9: a batch is fetched only after is_alive returned true; once is_alive
\* has returned false nothing more is fetched, printed as a chat line or
\* spoken, the termination notice is printed and the program ends with
\* status 0; and when no call raises this end is reached.
C9_Terminates ==
    /\ [](pc = "get" => alive = "true")
    /\ [](alive = "false" =>
             /\ pc \in {"ended", "exited"}
             /\ pc = "exited" => /\ exitStatus = 0
                                 /\ stdout[Len(stdout)].kind = "ended")
    /\ [][alive = "false" => /\ arrived' = arrived
                             /\ spoken' = spoken
                             /\ stdout' = Append(stdout, Line("ended", <<>>))]_vars
    /\ (pc = "is_alive" ~> (pc = "exited" \/ pc = "crashed"))

\* the program has ended normally after a batch
C9_Witness ==
    /\ pc = "exited"
    /\ exitStatus = 0
    /\ alive = "false"
    /\ Len(arrived) > 0

Kinds == { stdout[i].kind : i \in 1..Len(stdout) }

\* C10: without the video id the program prints two usage lines and exits
\* with status 1, and never opens a session, prints a banner, fetches or
\* speaks; with it pytchat.create is called once, after the connection
\* banner and before the "Connected!" banner.
C10_Usage ==
    /\ [](argc < 2 =>
             /\ pc \in {"main", "exited"}
             /\ creates = 0 /\ polls = 0 /\ arrived = <<>> /\ spoken = <<>>
             /\ Kinds \subseteq {"usage", "example"}
             /\ pc = "exited" =>
                   /\ stdout = <<Line("usage", <<>>), Line("example", <<>>)>>
                   /\ exitStatus = 1)
    /\ [](argc >= 2 =>
             /\ creates = (IF pc \in {"main", "create"} THEN 0 ELSE 1)
             /\ "connected" \in Kinds =>
                   /\ creates = 1
                   /\ stdout[1].kind = "connecting"
                   /\ stdout[2].kind = "connected")
    /\ [][creates' # creates =>
             /\ stdout = <<Line("connecting", <<>>)>>
             /\ stdout' = stdout]_vars

\* the program has exited on the usage error
C10_Witness ==
    /\ argc < 2
    /\ pc = "exited"
    /\ Len(stdout) = 2
    /\ exitStatus = 1

====
